---- MODULE Spec2Model ----
(***************************************************************************)
(* Model of deicer (src/deicer.py): the Glacier vault clean-up tool.       *)
(* One process at a time runs main(); its progress lives in the state      *)
(* file written by GlacierStateManager.  The remote Glacier API is the     *)
(* environment: every call's outcome is chosen nondeterministically.       *)
(* GlacierWrapper.delete_vault (src/src/GlacierWrapper.py), used by the    *)
(* demo in src/src/delete.py, is modelled as a separate run.               *)
(***************************************************************************)
EXTENDS Integers, Sequences, FiniteSets, TLC

VARIABLES
    state,         \* GlacierStateManager.state: [keys: insertion order, recs: vault -> record]
    file,          \* content of the state file
    saving,        \* TRUE while save_state has opened (truncated) the file and not finished
    lastSaved,     \* history: the mapping of the running invocation's last completed
                   \* save_state (before its first one, the mapping it loaded)
    pc,            \* position of main(): idle, list, initiate, check, output, output2, process,
                   \* report, exit
    idx,           \* position of the running stage's for-loop in state.keys
    scan,          \* args.scan of the running invocation
    status_arg,    \* args.status of the running invocation
    vaults,        \* list_vaults' local list of the names seen so far
    registered,    \* history: the names the running list_vaults has added to the store
    current_time,  \* process_completed_jobs' local current_time
    now,           \* the wall clock, in seconds
    raised,        \* history: the last invocation ended with an exception leaving main()
    calls,         \* history: the remote calls made by the last step of main(), in order
    dv,            \* history: the last run of GlacierWrapper.delete_vault
    report         \* history: the status lines the last invocation has logged

vars == <<state, file, saving, lastSaved, pc, idx, scan, status_arg, vaults, registered,
          current_time, now, raised, calls, dv, report>>

(* ------------------------------ bounds --------------------------------- *)

\* The clock advances in steps of TickSeconds, MaxTicks times at most.
TickSeconds == 43200

MaxTicks == 3

\* Vault names the account may hold, job ids the API may return.
Vaults == {"v1", "v2"}

JobIds == {"job-a", "job-b"}

(* --------------------------- data model -------------------------------- *)

\* Python's None in the job_id and status fields.
None == "None"

\* Python's None in the job_updated field; a timestamp string is <<t>>.
NoTime == <<>>

\* datetime.isoformat() and datetime.fromisoformat(): a timestamp and its string.
isoformat(t) == <<t>>

fromisoformat(s) == s[1]

\* Truthiness of a job_id (`not job_id`, `and job_id`) and of a job_updated.
Truthy(x) == x # None /\ x # ""

TruthyTime(s) == s # NoTime

\* The record add_vault stores for a new vault.
NewRecord ==
    [job_id |-> None, status |-> None, job_updated |-> NoTime, archives |-> <<>>]

\* The empty dict {}.
EmptyState == [keys |-> <<>>, recs |-> [v \in {} |-> NewRecord]]

Has(d, v) == \E i \in 1..Len(d.keys) : d.keys[i] = v

KeySet(d) == {d.keys[i] : i \in 1..Len(d.keys)}

(* --------------------------- state file -------------------------------- *)

\* json.dump of the mapping: the file holds a complete JSON document.
json_dump(d) == [kind |-> "json", keys |-> d.keys, recs |-> d.recs]

\* open(state_file, 'w') has truncated the file and json.dump has not finished:
\* what is on disk is a strict prefix of a document, which is not a document.
Truncated == [kind |-> "partial"]

Absent == [kind |-> "absent"]

\* GlacierStateManager.load_state: {} when the file is missing or is not JSON.
load_state(f) ==
    IF f.kind = "json" THEN [keys |-> f.keys, recs |-> f.recs] ELSE EmptyState

(* ------------------------ GlacierStateManager -------------------------- *)

\* add_vault without its `if vault_id not in self.state`: a tracked vault's
\* record is overwritten by a new one.
add_vault_resets(d, vault_id) ==
    [keys |-> IF Has(d, vault_id) THEN d.keys ELSE Append(d.keys, vault_id),
     recs |-> [v \in KeySet(d) \cup {vault_id} |->
                  IF v = vault_id THEN NewRecord ELSE d.recs[v]]]

\* add_vault assigning a new dict that holds the new vault only.
add_vault_replaces(d, vault_id) ==
    IF Has(d, vault_id)
    THEN d
    ELSE [keys |-> <<vault_id>>, recs |-> [v \in {vault_id} |-> NewRecord]]

\* The dict after add_vault's assignment (a new key goes last); unchanged when
\* the vault is already tracked.
add_vault(d, vault_id) ==
    IF Has(d, vault_id)
    THEN d
    ELSE [keys |-> Append(d.keys, vault_id),
          recs |-> [v \in KeySet(d) \cup {vault_id} |->
                       IF v = vault_id THEN NewRecord ELSE d.recs[v]]]

\* The dict after update_vault_job's three assignments, at clock value t.
update_vault_job(d, vault_id, job_id, status, t) ==
    IF Has(d, vault_id)
    THEN [d EXCEPT !.recs[vault_id] =
             [@ EXCEPT !.job_id = job_id, !.status = status,
                       !.job_updated = isoformat(t)]]
    ELSE d

\* The dict after update_vault_archives' assignment.
update_vault_archives(d, vault_id, archives) ==
    IF Has(d, vault_id)
    THEN [d EXCEPT !.recs[vault_id].archives = archives]
    ELSE d

\* A state-manager method has assigned d to self.state and entered save_state:
\* open(..., 'w') has truncated the file.
Mutate(d) ==
    /\ state' = d
    /\ file' = Truncated
    /\ saving' = TRUE
    /\ UNCHANGED lastSaved

\* A step that does not touch the store.
NoStore == UNCHANGED <<state, file, saving, lastSaved>>

\* save_state finishes: json.dump has written the whole mapping.
save_state ==
    /\ saving
    /\ file' = json_dump(state)
    /\ lastSaved' = state
    /\ saving' = FALSE
    /\ UNCHANGED <<state, pc, idx, scan, status_arg, vaults, registered, current_time, now,
                   raised, calls, dv, report>>

(* ------------------------------ the API -------------------------------- *)

\* Outcomes of the calls that either return or raise ClientError.
CallOutcomes == {"ok", "ClientError"}

\* describe_job: raises, or returns with Completed false or true.
DescribeOutcomes == {"ClientError", "InProgress", "Completed"}

\* Entries of an inventory's ArchiveList: complete, without the optional
\* ArchiveDescription, and without the ArchiveId.
Entry1 == [ArchiveId |-> "a1", ArchiveDescription |-> "first", Size |-> 10]

Entry2 == [ArchiveId |-> "a2", Size |-> 20]

EntryNoId == [ArchiveDescription |-> "third", Size |-> 30]

\* What get_job_output's call can produce: ClientError, or a body that is not
\* JSON, or a JSON object with or without an ArchiveList.
JobOutputs ==
    { [kind |-> "ClientError"],
      [kind |-> "body", json |-> FALSE],
      [kind |-> "body", json |-> TRUE, inventory |-> [VaultARN |-> "arn"]],
      [kind |-> "body", json |-> TRUE, inventory |-> [ArchiveList |-> <<Entry1, Entry2>>]],
      [kind |-> "body", json |-> TRUE, inventory |-> [ArchiveList |-> <<Entry1, EntryNoId>>]] }

\* inventory.get('ArchiveList', [])
ArchiveList(inventory) ==
    IF "ArchiveList" \in DOMAIN inventory THEN inventory.ArchiveList ELSE <<>>

\* json.loads and the list comprehension of get_job_output raise (JSONDecodeError,
\* KeyError: neither is a ClientError) on a body that is not JSON or on an entry
\* without ArchiveId or Size.
ParseRaises(out) ==
    \/ ~out.json
    \/ \E i \in 1..Len(ArchiveList(out.inventory)) :
          ~({"ArchiveId", "Size"} \subseteq DOMAIN ArchiveList(out.inventory)[i])

\* The list comprehension reading ArchiveDescription with archive[...], for
\* entries that all have one, and dropping it otherwise.
ParseArchives_no_default(out) ==
    [i \in 1..Len(ArchiveList(out.inventory)) |->
        LET archive == ArchiveList(out.inventory)[i] IN
        IF "ArchiveDescription" \in DOMAIN archive
        THEN [id |-> archive.ArchiveId, description |-> archive.ArchiveDescription,
              size |-> archive.Size]
        ELSE [id |-> archive.ArchiveId, size |-> archive.Size]]

\* The list comprehension of get_job_output.
ParseArchives(out) ==
    [i \in 1..Len(ArchiveList(out.inventory)) |->
        LET archive == ArchiveList(out.inventory)[i] IN
        [id |-> archive.ArchiveId,
         description |-> IF "ArchiveDescription" \in DOMAIN archive
                         THEN archive.ArchiveDescription ELSE "",
         size |-> archive.Size]]

(* ----------------------------- history --------------------------------- *)

\* One remote call: the operation, the vault, its argument, and whether it
\* returned (TRUE) or raised ClientError (FALSE).
Call(op, vault, arg, ok) == [op |-> op, vault |-> vault, arg |-> arg, ok |-> ok]

Range(seq) == {seq[i] : i \in 1..Len(seq)}

\* No run of GlacierWrapper.delete_vault yet.
NoRun == [error |-> None, attempts |-> 0, waits |-> <<>>, result |-> None]

(* ------------------------------ stages --------------------------------- *)

\* main without its `if args.scan:`.
FirstStage_always_list(s) == "list"

\* main's choice of the first stage: `if args.scan:` runs list_vaults and
\* initiate_inventory_jobs before check_job_status.
FirstStage(s) == IF s THEN "list" ELSE "check"

\* main(): a new invocation parses its arguments and constructs the state
\* manager, which loads the state file.
main(modes) ==
    /\ pc \in {"idle", "exit"}
    /\ \E s \in modes :
          /\ scan' = s
          /\ pc' = FirstStage(s)
    /\ status_arg' \in BOOLEAN
    /\ report' = <<>>
    /\ state' = load_state(file)
    /\ idx' = 1
    /\ vaults' = <<>>
    /\ registered' = {}
    /\ raised' = FALSE
    /\ calls' = <<>>
    /\ dv' = NoRun
    /\ lastSaved' = load_state(file)
    /\ UNCHANGED <<file, saving, current_time, now>>

\* main() returns (r = FALSE) or an exception leaves it (r = TRUE): the process
\* ends and its memory with it.
Exit(r) ==
    /\ pc' = "exit"
    /\ raised' = r
    /\ state' = EmptyState
    /\ idx' = 1
    /\ scan' = FALSE
    /\ status_arg' = FALSE
    /\ vaults' = <<>>
    /\ registered' = {}
    /\ current_time' = 0
    /\ UNCHANGED <<file, saving, lastSaved>>

\* list_vaults logging the ClientError and returning the names seen so far.
list_vaults_swallows(outcomes) ==
    /\ pc = "list"
    /\ ~saving
    /\ \E r \in (outcomes \ {"ok"}) \cup (Vaults \ Range(vaults)) \cup {"end"} :
          IF r = "ClientError"
          THEN /\ pc' = "initiate"
               /\ idx' = 1
               /\ vaults' = <<>>
               /\ registered' = {}
               /\ calls' = <<Call("list_vaults", None, "", FALSE)>>
               /\ NoStore
               /\ UNCHANGED <<raised, scan, status_arg, current_time>>
          ELSE IF r = "end"
          THEN /\ pc' = "initiate"
               /\ idx' = 1
               /\ vaults' = <<>>
               /\ registered' = {}
               /\ calls' = <<>>
               /\ NoStore
               /\ UNCHANGED <<raised, scan, status_arg, current_time>>
          ELSE /\ IF add_vault(state, r) = state
                  THEN NoStore
                  ELSE Mutate(add_vault(state, r))
               /\ vaults' = Append(vaults, r)
               /\ registered' = IF Has(state, r) THEN registered ELSE registered \cup {r}
               /\ calls' = <<Call("list_vaults", r, "", TRUE)>>
               /\ UNCHANGED <<pc, idx, raised, scan, status_arg, current_time>>
    /\ UNCHANGED <<now, dv, report>>

\* list_vaults: one step of the paginator loop (add_vault saves only when it
\* has added a record).  The next page raises
\* ClientError (re-raised, and main re-raises it), or yields one more vault
\* name, or the listing is exhausted and main goes on to initiate_inventory_jobs.
list_vaults(outcomes) ==
    /\ pc = "list"
    /\ ~saving
    /\ \E r \in (outcomes \ {"ok"}) \cup (Vaults \ Range(vaults)) \cup {"end"} :
          IF r = "ClientError"
          THEN /\ Exit(TRUE)
               /\ calls' = <<Call("list_vaults", None, "", FALSE)>>
          ELSE IF r = "end"
          THEN /\ pc' = "initiate"
               /\ idx' = 1
               /\ vaults' = <<>>
               /\ registered' = {}
               /\ calls' = <<>>
               /\ NoStore
               /\ UNCHANGED <<raised, scan, status_arg, current_time>>
          ELSE /\ IF add_vault(state, r) = state
                  THEN NoStore
                  ELSE Mutate(add_vault(state, r))
               /\ vaults' = Append(vaults, r)
               /\ registered' = IF Has(state, r) THEN registered ELSE registered \cup {r}
               /\ calls' = <<Call("list_vaults", r, "", TRUE)>>
               /\ UNCHANGED <<pc, idx, raised, scan, status_arg, current_time>>
    /\ UNCHANGED <<now, dv, report>>

\* The test of initiate_inventory_jobs on one record.
ShouldInitiate(vault_data) ==
    \/ ~Truthy(vault_data.job_id)
    \/ vault_data.status \in {"error", "complete"}

\* initiate_inventory_jobs passing the record's job id in its except branch.
initiate_inventory_jobs_keeps_job(outcomes) ==
    /\ pc = "initiate"
    /\ ~saving
    /\ IF idx > Len(state.keys)
       THEN /\ pc' = "check"
            /\ idx' = 1
            /\ calls' = <<>>
            /\ NoStore
       ELSE LET vault_id == state.keys[idx]
                vault_data == state.recs[vault_id]
            IN  /\ pc' = pc
                /\ idx' = idx + 1
                /\ IF ShouldInitiate(vault_data)
                   THEN \E r \in outcomes : \E job_id \in JobIds \ {vault_data.job_id} :
                           /\ calls' = <<Call("initiate_job", vault_id,
                                              IF r = "ok" THEN job_id ELSE "", r = "ok")>>
                           /\ IF r = "ok"
                              THEN Mutate(update_vault_job(state, vault_id, job_id, "in-progress", now))
                              ELSE Mutate(update_vault_job(state, vault_id, vault_data.job_id,
                                                               "error", now))
                   ELSE NoStore /\ calls' = <<>>
    /\ UNCHANGED <<scan, status_arg, vaults, registered, current_time, now, raised, dv, report>>

\* initiate_inventory_jobs: one iteration of the loop over state.items(), or the
\* end of the loop, after which main calls check_job_status.
initiate_inventory_jobs(outcomes) ==
    /\ pc = "initiate"
    /\ ~saving
    /\ IF idx > Len(state.keys)
       THEN /\ pc' = "check"
            /\ idx' = 1
            /\ calls' = <<>>
            /\ NoStore
       ELSE LET vault_id == state.keys[idx]
                vault_data == state.recs[vault_id]
            IN  /\ pc' = pc
                /\ idx' = idx + 1
                /\ IF ShouldInitiate(vault_data)
                   THEN \E r \in outcomes : \E job_id \in JobIds \ {vault_data.job_id} :
                           /\ calls' = <<Call("initiate_job", vault_id,
                                              IF r = "ok" THEN job_id ELSE "", r = "ok")>>
                           /\ IF r = "ok"
                              THEN Mutate(update_vault_job(state, vault_id, job_id, "in-progress", now))
                              ELSE Mutate(update_vault_job(state, vault_id, None, "error", now))
                   ELSE NoStore /\ calls' = <<>>
    /\ UNCHANGED <<scan, status_arg, vaults, registered, current_time, now, raised, dv, report>>

\* The test of check_job_status on one record.
ShouldCheck(vault_data) ==
    vault_data.status = "in-progress" /\ Truthy(vault_data.job_id)

\* check_job_status updating the job timestamp only when the job is complete.
check_job_status_no_refresh(outcomes) ==
    /\ pc = "check"
    /\ ~saving
    /\ IF idx > Len(state.keys)
       THEN /\ pc' = "process"
            /\ idx' = 1
            /\ current_time' = now
            /\ calls' = <<>>
            /\ NoStore
       ELSE LET vault_id == state.keys[idx]
                vault_data == state.recs[vault_id]
            IN  /\ UNCHANGED current_time
                /\ IF ShouldCheck(vault_data)
                   THEN \E r \in outcomes :
                           /\ calls' = <<Call("describe_job", vault_id, vault_data.job_id, r # "ClientError")>>
                           /\ IF r = "ClientError"
                              THEN /\ Mutate(update_vault_job(state, vault_id, vault_data.job_id, "error", now))
                                   /\ pc' = pc
                                   /\ idx' = idx + 1
                              ELSE /\ IF r = "Completed"
                                      THEN Mutate(update_vault_job(state, vault_id,
                                                    vault_data.job_id, "in-progress", now))
                                      ELSE NoStore
                                   /\ pc' = IF r = "Completed" THEN "output" ELSE pc
                                   /\ idx' = IF r = "Completed" THEN idx ELSE idx + 1
                   ELSE /\ NoStore
                        /\ pc' = pc
                        /\ idx' = idx + 1
                        /\ calls' = <<>>
    /\ UNCHANGED <<scan, status_arg, vaults, registered, now, raised, dv, report>>

\* check_job_status: one iteration of the loop up to the call of get_job_output,
\* or the end of the loop, after which main calls process_completed_jobs, which
\* reads the clock once.
check_job_status(outcomes) ==
    /\ pc = "check"
    /\ ~saving
    /\ IF idx > Len(state.keys)
       THEN /\ pc' = "process"
            /\ idx' = 1
            /\ current_time' = now
            /\ calls' = <<>>
            /\ NoStore
       ELSE LET vault_id == state.keys[idx]
                vault_data == state.recs[vault_id]
            IN  /\ UNCHANGED current_time
                /\ IF ShouldCheck(vault_data)
                   THEN \E r \in outcomes :
                           /\ calls' = <<Call("describe_job", vault_id, vault_data.job_id, r # "ClientError")>>
                           /\ IF r = "ClientError"
                              THEN /\ Mutate(update_vault_job(state, vault_id, vault_data.job_id, "error", now))
                                   /\ pc' = pc
                                   /\ idx' = idx + 1
                              ELSE /\ Mutate(update_vault_job(state, vault_id, vault_data.job_id, "in-progress", now))
                                   /\ pc' = IF r = "Completed" THEN "output" ELSE pc
                                   /\ idx' = IF r = "Completed" THEN idx ELSE idx + 1
                   ELSE /\ NoStore
                        /\ pc' = pc
                        /\ idx' = idx + 1
                        /\ calls' = <<>>
    /\ UNCHANGED <<scan, status_arg, vaults, registered, now, raised, dv, report>>

\* get_job_output up to update_vault_archives.  ClientError is caught and the
\* record marked; any other exception leaves get_job_output, check_job_status
\* (which catches ClientError only) and main.
get_job_output(outputs) ==
    /\ pc = "output"
    /\ ~saving
    /\ LET vault_id == state.keys[idx]
           job_id == state.recs[vault_id].job_id
       IN  \E out \in outputs :
              IF out.kind = "ClientError"
              THEN /\ Mutate(update_vault_job(state, vault_id, job_id, "error", now))
                   /\ calls' = <<Call("get_job_output", vault_id, out, FALSE)>>
                   /\ pc' = "check"
                   /\ idx' = idx + 1
                   /\ UNCHANGED <<raised, scan, status_arg, vaults, registered, current_time>>
              ELSE IF ParseRaises(out)
              THEN /\ Exit(TRUE)
                   /\ calls' = <<Call("get_job_output", vault_id, out, TRUE)>>
              ELSE /\ Mutate(update_vault_archives(state, vault_id, ParseArchives(out)))
                   /\ calls' = <<Call("get_job_output", vault_id, out, TRUE)>>
                   /\ pc' = "output2"
                   /\ UNCHANGED <<idx, raised, scan, status_arg, vaults, registered, current_time>>
    /\ UNCHANGED <<now, dv, report>>

\* The rest of get_job_output: update_vault_job(vault_id, job_id, "complete").
get_job_output_complete ==
    /\ pc = "output2"
    /\ ~saving
    /\ LET vault_id == state.keys[idx]
       IN  Mutate(update_vault_job(state, vault_id, state.recs[vault_id].job_id, "complete", now))
    /\ pc' = "check"
    /\ idx' = idx + 1
    /\ calls' = <<>>
    /\ UNCHANGED <<scan, status_arg, vaults, registered, current_time, now, raised, dv, report>>

(* ----------------------- retention and deletion ------------------------ *)

\* The retention threshold of process_completed_jobs, in hours.
RetentionHours == 24

SecondsPerHour == 3600

\* (current_time - job_time).total_seconds() / 3600, to the whole hour below:
\* the comparison with the whole number 24 is the same.
hours_elapsed(ct, job_time) == (ct - job_time) \div SecondsPerHour

\* process_completed_jobs with `>` for `>=`.
IsSelected_strict(vault_data, ct) ==
    /\ vault_data.status = "complete"
    /\ TruthyTime(vault_data.job_updated)
    /\ hours_elapsed(ct, fromisoformat(vault_data.job_updated)) > RetentionHours

\* The two tests of process_completed_jobs on one record.
IsSelected(vault_data, ct) ==
    /\ vault_data.status = "complete"
    /\ TruthyTime(vault_data.job_updated)
    /\ hours_elapsed(ct, fromisoformat(vault_data.job_updated)) >= RetentionHours

\* delete_vault_contents passing the record's job id where it passes None.
delete_vault_contents_keeps_job(vault_id, archives, outcomes) ==
    \E failed \in SUBSET {i \in 1..Len(archives) : "ClientError" \in outcomes} :
       /\ calls' = [i \in 1..Len(archives) |->
                       Call("delete_archive", vault_id, archives[i].id, i \notin failed)]
       /\ Mutate(update_vault_job(state, vault_id, state.recs[vault_id].job_id,
                                  "pending_deletion", now))

\* delete_vault_contents leaving its loop at the first ClientError.
delete_vault_contents_stops(vault_id, archives, outcomes) ==
    \E failed \in SUBSET {i \in 1..Len(archives) : "ClientError" \in outcomes} :
       LET last == IF failed = {} THEN Len(archives)
                   ELSE CHOOSE i \in failed : \A j \in failed : i <= j
       IN  /\ calls' = [i \in 1..last |->
                           Call("delete_archive", vault_id, archives[i].id, i \notin failed)]
           /\ Mutate(update_vault_job(state, vault_id, None, "pending_deletion", now))

\* delete_vault_contents: delete_archive is called for every archive in order,
\* a ClientError is logged and the loop goes on; then the record is marked and
\* saved.  No call deletes the vault.  The outer `except Exception` is entered
\* only by an exception that is not a ClientError, which the calls of this
\* model (CallOutcomes) do not raise.
delete_vault_contents(vault_id, archives, outcomes) ==
    \E failed \in SUBSET {i \in 1..Len(archives) : "ClientError" \in outcomes} :
       /\ calls' = [i \in 1..Len(archives) |->
                       Call("delete_archive", vault_id, archives[i].id, i \notin failed)]
       /\ Mutate(update_vault_job(state, vault_id, None, "pending_deletion", now))

\* process_completed_jobs: one iteration of the loop, or its end, after which
\* main returns.
process_completed_jobs(outcomes) ==
    /\ pc = "process"
    /\ ~saving
    /\ IF idx > Len(state.keys)
       THEN /\ calls' = <<>>
            /\ IF status_arg
               THEN /\ pc' = "report"
                    /\ NoStore
                    /\ UNCHANGED <<idx, scan, status_arg, vaults, registered, current_time, raised>>
               ELSE Exit(FALSE)
       ELSE LET vault_id == state.keys[idx]
                vault_data == state.recs[vault_id]
            IN  /\ pc' = pc
                /\ idx' = idx + 1
                /\ IF IsSelected(vault_data, current_time)
                   THEN delete_vault_contents(vault_id, vault_data.archives, outcomes)
                   ELSE NoStore /\ calls' = <<>>
                /\ UNCHANGED <<scan, status_arg, vaults, registered, current_time, raised>>
    /\ UNCHANGED <<now, dv, report>>

\* strftime of the timestamp converted to local time: the string shown for it.
strftime(t) == <<"local", t>>

\* The string shown for a job_updated of None.
Never == <<"never">>

\* The status lines that omit the `or "not started"` default.
ReportLine_no_default(vault_id, vault_data) ==
    [vault |-> vault_id,
     status |-> vault_data.status,
     job_id |-> IF Truthy(vault_data.job_id) THEN vault_data.job_id ELSE "no job",
     updated |-> IF TruthyTime(vault_data.job_updated)
                 THEN strftime(fromisoformat(vault_data.job_updated)) ELSE Never,
     archives |-> Len(vault_data.archives)]

\* The lines main logs for one vault under `if args.status:`.
ReportLine(vault_id, vault_data) ==
    [vault |-> vault_id,
     status |-> IF Truthy(vault_data.status) THEN vault_data.status ELSE "not started",
     job_id |-> IF Truthy(vault_data.job_id) THEN vault_data.job_id ELSE "no job",
     updated |-> IF TruthyTime(vault_data.job_updated)
                 THEN strftime(fromisoformat(vault_data.job_updated)) ELSE Never,
     archives |-> Len(vault_data.archives)]

\* main's `if args.status:` block, reached after check_job_status and
\* process_completed_jobs have returned: the lines are logged, main returns.
status_report ==
    /\ pc = "report"
    /\ ~saving
    /\ report' = [i \in 1..Len(state.keys) |->
                     ReportLine(state.keys[i], state.recs[state.keys[i]])]
    /\ calls' = <<>>
    /\ Exit(FALSE)
    /\ UNCHANGED <<now, dv>>

\* Outcomes of the API's delete-vault call: done, the vault is not empty yet,
\* any other error.
DeleteVaultOutcomes == {"ok", "NotEmpty", "Other"}

\* GlacierWrapper.delete_vault, as called by retrieve_demo: one call of
\* vault.delete(); a ClientError is logged and raised again.
delete_vault(outcomes) ==
    /\ pc \in {"idle", "exit"}
    /\ \E r \in outcomes :
          dv' = [error |-> IF r = "ok" THEN None ELSE r,
                 attempts |-> 1, waits |-> <<>>,
                 result |-> IF r = "ok" THEN "deleted" ELSE "raised"]
    /\ UNCHANGED <<state, file, saving, lastSaved, pc, idx, scan, status_arg, vaults, registered,
                   current_time, now, raised, calls, report>>

(* --------------------------- environment ------------------------------- *)

\* Time passes.
Tick ==
    /\ now < MaxTicks * TickSeconds
    /\ now' = now + TickSeconds
    /\ UNCHANGED <<state, file, saving, lastSaved, pc, idx, scan, status_arg, vaults, registered,
                   current_time, raised, calls, dv, report>>

\* The process is killed while main runs: memory is gone, the file stays as
\* it is, truncated if save_state was under way.
Crash ==
    /\ pc \notin {"idle", "exit"}
    /\ pc' = "idle"
    /\ saving' = FALSE
    /\ state' = EmptyState
    /\ idx' = 1
    /\ scan' = FALSE
    /\ status_arg' = FALSE
    /\ vaults' = <<>>
    /\ registered' = {}
    /\ current_time' = 0
    /\ calls' = <<>>
    /\ lastSaved' = load_state(file)
    /\ UNCHANGED <<file, now, raised, dv, report>>

(* --------------------------- specification ----------------------------- *)

Init ==
    /\ state = EmptyState
    /\ file = Absent
    /\ saving = FALSE
    /\ lastSaved = EmptyState
    /\ pc = "idle"
    /\ idx = 1
    /\ scan = FALSE
    /\ status_arg = FALSE
    /\ vaults = <<>>
    /\ registered = {}
    /\ current_time = 0
    /\ now = 0
    /\ raised = FALSE
    /\ calls = <<>>
    /\ dv = NoRun
    /\ report = <<>>

Next ==
    \/ main(BOOLEAN)
    \/ list_vaults(CallOutcomes)
    \/ initiate_inventory_jobs(CallOutcomes)
    \/ check_job_status(DescribeOutcomes)
    \/ get_job_output(JobOutputs)
    \/ get_job_output_complete
    \/ process_completed_jobs(CallOutcomes)
    \/ status_report
    \/ save_state
    \/ delete_vault(DeleteVaultOutcomes)
    \/ Tick
    \/ Crash

Spec == Init /\ [][Next]_vars

(* ------------------- every remote call succeeds ------------------------ *)

\* The first invocation of a campaign scans, the later ones only poll.
LiveModes == {file.kind = "absent"}

\* Job outputs that are well-formed manifests.
GoodOutputs == {out \in JobOutputs : out.kind = "body" /\ ~ParseRaises(out)}

\* The tool is invoked again and again, no call fails, no process is killed.
NextLive ==
    \/ main(LiveModes)
    \/ list_vaults({"ok"})
    \/ initiate_inventory_jobs({"ok"})
    \/ check_job_status({"InProgress", "Completed"})
    \/ get_job_output(GoodOutputs)
    \/ get_job_output_complete
    \/ process_completed_jobs({"ok"})
    \/ status_report
    \/ save_state
    \/ Tick

\* A started step of main finishes, and the scheduler starts main again.
SpecLive == Init /\ [][NextLive]_vars /\ WF_vars(NextLive)

(* ----------------------- no process is killed -------------------------- *)

\* Every invocation runs until main returns or raises.
NextNoKill ==
    \/ main(BOOLEAN)
    \/ list_vaults(CallOutcomes)
    \/ initiate_inventory_jobs(CallOutcomes)
    \/ check_job_status(DescribeOutcomes)
    \/ get_job_output(JobOutputs)
    \/ get_job_output_complete
    \/ process_completed_jobs(CallOutcomes)
    \/ status_report
    \/ save_state
    \/ delete_vault(DeleteVaultOutcomes)
    \/ Tick

SpecNoKill == Init /\ [][NextNoKill]_vars

(* ------------------------------ claims --------------------------------- *)

\* The records of the store, in memory and as the state file holds them.
Records(d) == {d.recs[v] : v \in KeySet(d)}

AllRecords == Records(state) \cup Records(load_state(file))

\* main is running and its last step was an iteration of the stage at position
\* p (not the end of its loop, not a clock tick, not a save finishing).
Iterated(p) == pc = p /\ ~saving /\ idx <= Len(state.keys) /\ idx' = idx + 1

AgedComplete(v) ==
    /\ Has(load_state(file), v)
    /\ load_state(file).recs[v].status = "complete"
    /\ now - load_state(file).recs[v].job_updated[1] >= 86400

\* C3 as stated: with the tool invoked again and again and every call
\* succeeding, a vault whose inventory is complete for 24 hours eventually has a
\* record with status deleted and no job_id.
C3_EventuallyDeleted ==
    \A v \in Vaults :
       AgedComplete(v) ~>
          (/\ Has(load_state(file), v)
           /\ load_state(file).recs[v].status = "deleted"
           /\ load_state(file).recs[v].job_id = None)

\* C4 as stated, for R = 3 and W = 10: a vault deletion that ended by raising
\* on the "not empty" error was attempted 3 times, with waits of 10 s and 20 s.
C4_BoundedBackoff ==
    (dv.result = "raised" /\ dv.error = "NotEmpty") =>
       (dv.attempts = 3 /\ dv.waits = <<10, 20>>)

\* C5 as stated: an iteration of initiate_inventory_jobs submits a job exactly
\* when the record has not started or is in error, and otherwise leaves the
\* store as it was.
C5_InitiatorOnlyNotStartedOrError ==
    [][Iterated("initiate") =>
          LET r == state.recs[state.keys[idx]]
          IN  IF r.status \in {None, "error"}
              THEN Len(calls') = 1 /\ calls'[1].op = "initiate_job"
              ELSE calls' = <<>> /\ state' = state]_vars

NoDup(seq) == \A i, j \in 1..Len(seq) : seq[i] = seq[j] => i = j

\* C6: no vault has two records, in memory or in the state file; when
\* list_vaults registers a name that has a record, the store is unchanged in
\* memory and on disk; when the name is new, one record is added after the
\* others, with no status, no job_id, no job_updated and no archives, and the
\* others are unchanged.
C6_IdempotentDiscovery ==
    /\ [](NoDup(state.keys) /\ NoDup(load_state(file).keys))
    /\ [][(pc = "list" /\ pc' = "list" /\ vaults' # vaults) =>
             LET v == vaults'[Len(vaults')]
             IN  IF v \in KeySet(state)
                 THEN state' = state /\ file' = file
                 ELSE /\ state'.keys = Append(state.keys, v)
                      /\ state'.recs[v] = [job_id |-> None, status |-> None,
                                           job_updated |-> NoTime, archives |-> <<>>]
                      /\ \A w \in KeySet(state) : state'.recs[w] = state.recs[w]]_vars

\* C6 witness: list_vaults has registered again a vault whose record is
\* complete and holds archives.
C6_Witness ==
    /\ pc = "list"
    /\ \E v \in Range(vaults) :
          /\ state.recs[v].status = "complete"
          /\ state.recs[v].archives # <<>>

\* Mapping a holds every record of mapping b, as b has it.
Covers(a, b) == \A v \in KeySet(b) : Has(a, v) /\ a.recs[v] = b.recs[v]

\* C7 as stated: when the process is killed, the mapping the next invocation
\* loads holds every record of the last completed save, as saved.
C7_CrashResume ==
    [][(pc \notin {"idle", "exit"} /\ pc' = "idle") =>
          Covers(load_state(file'), lastSaved)]_vars

\* C8 as stated: no step moves a record that is pending deletion to a status
\* other than deleted.
C8_PendingDeletionStays ==
    [][\A v \in KeySet(state) \cap KeySet(state') :
          state.recs[v].status = "pending_deletion" =>
             state'.recs[v].status \in {"pending_deletion", "deleted"}]_vars

\* A job output that is not a manifest: not JSON, no ArchiveList, or an entry
\* without ArchiveId or Size.
Malformed(out) ==
    /\ out.kind = "body"
    /\ \/ ~out.json
       \/ "ArchiveList" \notin DOMAIN out.inventory
       \/ \E i \in 1..Len(out.inventory.ArchiveList) :
             ~({"ArchiveId", "Size"} \subseteq DOMAIN out.inventory.ArchiveList[i])

\* C9 as stated: when get_job_output receives a malformed output, the record
\* goes to error, no exception leaves main, and check_job_status goes on with
\* the next record.
C9_MalformedOutputContained ==
    [][(pc = "output" /\ calls' # calls /\ Len(calls') = 1
           /\ calls'[1].op = "get_job_output" /\ Malformed(calls'[1].arg)) =>
          /\ pc' = "check"
          /\ ~raised'
          /\ idx' = idx + 1
          /\ state'.recs[calls'[1].vault].status = "error"]_vars

Running == pc \notin {"idle", "exit"}

\* C10: an invocation without --scan is never in list_vaults or
\* initiate_inventory_jobs; none of its steps adds a record, lists vaults or
\* submits a job, and the store changes only in check_job_status,
\* get_job_output and process_completed_jobs.
C10_PollOnlyFrame ==
    /\ []((Running /\ ~scan) => pc \notin {"list", "initiate"})
    /\ [][(Running /\ ~scan /\ pc' \notin {"idle", "exit"}) =>
             /\ KeySet(state') = KeySet(state)
             /\ \A i \in 1..Len(calls') :
                   calls'[i].op \notin {"list_vaults", "initiate_job"}
             /\ (state' # state => pc \in {"check", "output", "output2", "process"})]_vars

\* C10 witness: an invocation without --scan has marked a record for deletion
\* and is saving it.
C10_Witness ==
    /\ Running
    /\ ~scan
    /\ pc = "process"
    /\ saving
    /\ \E r \in Records(state) : r.status = "pending_deletion"

\* The vault identifiers of the Record Store: of the mapping in memory while
\* main runs, of the state file between invocations.
StoreKeys == IF Running THEN KeySet(state) ELSE KeySet(load_state(file))

C12_StatusModePure ==
    (Running /\ status_arg /\ ~scan) =>
        /\ ~saving
        /\ state = lastSaved
        /\ \A i \in 1..Len(calls) : calls[i].op \notin {"initiate_job", "delete_archive"}

\* C12 amended: the status report is printed after the Poller, the Retention
\* Gate and the Destroyer have run; the printing itself mutates nothing: it
\* starts with every save finished and the mapping in memory persisted, leaves
\* the state file as it is, makes no remote call, and prints for every record,
\* in order, its status ("not started" for none), job id ("no job"), last
\* update ("never") and archive count.
C12_ReportOnlyReads ==
    /\ [](pc = "report" => ~saving /\ load_state(file) = state
                            /\ lastSaved = state /\ status_arg)
    /\ [][(pc = "report" /\ pc' = "exit") =>
             /\ file' = file
             /\ ~saving'
             /\ calls' = <<>>
             /\ ~raised'
             /\ Len(report') = Len(state.keys)
             /\ \A i \in 1..Len(state.keys) :
                   LET r == state.recs[state.keys[i]] IN
                   /\ report'[i].vault = state.keys[i]
                   /\ report'[i].status = (IF r.status = None THEN "not started" ELSE r.status)
                   /\ report'[i].job_id = (IF r.job_id = None THEN "no job" ELSE r.job_id)
                   /\ report'[i].updated = (IF r.job_updated = NoTime THEN Never
                                            ELSE strftime(r.job_updated[1]))
                   /\ report'[i].archives = Len(r.archives)]_vars

\* C12 witness: a report has been printed for two vaults, one never started
\* and one whose two archives the same store still lists as pending deletion.
C12_Witness ==
    /\ pc = "exit"
    /\ Len(report) = 2
    /\ \E i, j \in 1..2 :
          /\ report[i].status = "not started"
          /\ report[i].updated = Never
          /\ report[j].status = "pending_deletion"
          /\ report[j].archives = 2
          /\ report[j].job_id = "no job"

\* The last step was the listing call that raised ClientError.
ListingFailed(cs) == \E i \in 1..Len(cs) : cs[i].op = "list_vaults" /\ ~cs[i].ok

\* C13 as stated: the step on which the enumeration fails ends the invocation
\* with the failure raised, and none of the vaults listed before the failure
\* has been registered by this invocation.
C13_ListingAllOrNothing ==
    [][(pc = "list" /\ ListingFailed(calls')) =>
          /\ pc' = "exit"
          /\ raised'
          /\ registered = {}]_vars

\* C13 amended: the step on which the enumeration fails ends the invocation
\* with the failure raised out of main; the state file is left as it is, and
\* it holds every vault listed before the failure, those this invocation has
\* registered included; after the exit no store write and no remote call
\* happens until a new invocation starts.
C13_ListingAbortsKeepsListed ==
    /\ [][(pc = "list" /\ ListingFailed(calls')) =>
             /\ pc' = "exit"
             /\ raised'
             /\ file' = file
             /\ ~saving'
             /\ Range(vaults) \subseteq KeySet(load_state(file'))
             /\ registered \subseteq Range(vaults)]_vars
    /\ [][pc = "exit" =>
             /\ file' = file
             /\ calls' = calls \/ (calls' = <<>> /\ pc' \in {"list", "check"})]_vars

\* C13 witness: an invocation on an empty store has ended with the listing's
\* ClientError raised, and the state file holds the one vault listed before it.
C13_Witness ==
    /\ pc = "exit"
    /\ raised
    /\ ListingFailed(calls)
    /\ now = 0
    /\ load_state(file).keys = <<"v2">>
    /\ load_state(file).recs["v2"] = NewRecord

\* The Retention Gate's last step handed the record at idx to the Destroyer.
Destroyed ==
    /\ Iterated("process")
    /\ IsSelected(state.recs[state.keys[idx]], current_time)

Initiated ==
    /\ Iterated("initiate")
    /\ ShouldInitiate(state.recs[state.keys[idx]])

\* C15: a step of the Initiator on a record it processes makes one submission
\* for that vault; if it succeeds the record is in-progress with the returned
\* job id, if it fails the record is error with job_id null, and in both
\* cases job_updated is the current time, every other record is unchanged and
\* the loop goes on with the next record; the loop ends only past the last
\* record.
C15_InitiatorPerVault ==
    /\ [][Initiated =>
             LET vault_id == state.keys[idx]
                 r == state'.recs[vault_id]
             IN  /\ Len(calls') = 1
                 /\ calls'[1].op = "initiate_job"
                 /\ calls'[1].vault = vault_id
                 /\ IF calls'[1].ok
                    THEN /\ r.status = "in-progress"
                         /\ r.job_id \in JobIds
                         /\ r.job_id = calls'[1].arg
                    ELSE /\ r.status = "error"
                         /\ r.job_id = None
                 /\ r.job_updated = isoformat(now)
                 /\ pc' = "initiate"
                 /\ ~raised'
                 /\ state'.keys = state.keys
                 /\ \A w \in KeySet(state) \ {vault_id} : state'.recs[w] = state.recs[w]]_vars
    /\ [][(pc = "initiate" /\ pc' \notin {"initiate", "idle"}) =>
             (idx > Len(state.keys) /\ pc' = "check")]_vars

\* C15 witness: the Initiator has processed two records in one invocation; the
\* submission for the first failed, the one for the second succeeded.
C15_Witness ==
    /\ pc = "initiate"
    /\ idx = 3
    /\ Len(calls) = 1
    /\ calls[1].op = "initiate_job" /\ calls[1].ok
    /\ calls[1].vault = state.keys[2]
    /\ state.recs[state.keys[1]].status = "error"
    /\ state.recs[state.keys[1]].job_id = None
    /\ state.recs[state.keys[1]].job_updated = isoformat(now)
    /\ state.recs[state.keys[2]].status = "in-progress"

\* The Poller's last step checked the record at idx and the job was reported
\* as not complete.
PolledNotComplete ==
    /\ Iterated("check")
    /\ ShouldCheck(state.recs[state.keys[idx]])
    /\ Len(calls') = 1
    /\ calls'[1].ok

\* C16: a step of the Poller on an in-progress record whose job is reported
\* as not complete asks for that job once and changes nothing in the store but
\* the record's job_updated, which becomes the current time.
C16_PollRefreshOnly ==
    [][PolledNotComplete =>
          LET vault_id == state.keys[idx] IN
          /\ calls'[1].op = "describe_job"
          /\ calls'[1].vault = vault_id
          /\ calls'[1].arg = state.recs[vault_id].job_id
          /\ state'.keys = state.keys
          /\ state'.recs = [state.recs EXCEPT ![vault_id].job_updated = isoformat(now)]
          /\ state'.recs[vault_id].status = "in-progress"
          /\ pc' = "check"]_vars

\* C16 witness: the Poller has just refreshed an in-progress record at a later
\* time than its previous update, in a store of two vaults.
C16_Witness ==
    /\ pc = "check"
    /\ saving
    /\ Len(state.keys) = 2
    /\ Len(calls) = 1
    /\ calls[1].op = "describe_job" /\ calls[1].ok
    /\ state.recs[calls[1].vault].status = "in-progress"
    /\ state.recs[calls[1].vault].job_updated = isoformat(now)
    /\ lastSaved.recs[calls[1].vault].job_updated # isoformat(now)
    /\ lastSaved.recs[calls[1].vault].status = "in-progress"

\* A job output that is a well-formed manifest: JSON with an ArchiveList whose
\* entries all have an ArchiveId and a Size.
WellFormed(out) ==
    /\ out.kind = "body"
    /\ out.json
    /\ "ArchiveList" \in DOMAIN out.inventory
    /\ \A i \in 1..Len(out.inventory.ArchiveList) :
          {"ArchiveId", "Size"} \subseteq DOMAIN out.inventory.ArchiveList[i]

\* C17: when the job of an in-progress record is complete and its output is a
\* well-formed manifest, the Poller first stores the manifest's entries, in
\* order, as the record's archives (id, description or "" when the entry has
\* none, size) and changes nothing else; then, with nothing changed in
\* between, it sets the record's status to complete with the same job_id and
\* the archives kept, job_updated taking the current time; no other record
\* changes.
C17_CompleteStoresManifest ==
    /\ [][(/\ pc = "output"
            /\ Len(calls') = 1
            /\ calls'[1].op = "get_job_output"
            /\ WellFormed(calls'[1].arg)) =>
             LET vault_id == state.keys[idx]
                 list == calls'[1].arg.inventory.ArchiveList
                 archives == state'.recs[vault_id].archives
             IN  /\ pc' = "output2"
                 /\ idx' = idx
                 /\ calls'[1].vault = vault_id
                 /\ Len(archives) = Len(list)
                 /\ \A i \in 1..Len(list) :
                       /\ DOMAIN archives[i] = {"id", "description", "size"}
                       /\ archives[i].id = list[i].ArchiveId
                       /\ archives[i].size = list[i].Size
                       /\ archives[i].description =
                             IF "ArchiveDescription" \in DOMAIN list[i]
                             THEN list[i].ArchiveDescription ELSE ""
                 /\ state'.keys = state.keys
                 /\ state'.recs = [state.recs EXCEPT ![vault_id].archives = archives]]_vars
    /\ [][(pc = "output2" /\ pc' = "output2") => (state' = state /\ idx' = idx)]_vars
    /\ [][(pc = "output2" /\ pc' \notin {"output2", "idle"}) =>
             LET vault_id == state.keys[idx] IN
             /\ pc' = "check"
             /\ state.recs[vault_id].status = "in-progress"
             /\ state'.keys = state.keys
             /\ state'.recs = [state.recs EXCEPT ![vault_id].status = "complete",
                                                 ![vault_id].job_updated = isoformat(now)]]_vars

\* C17 witness: the Poller has just completed a record from a manifest of two
\* entries, the second without a description; the job id is still there.
C17_Witness ==
    /\ pc = "check"
    /\ saving
    /\ \E v \in KeySet(state) :
          /\ state.recs[v].status = "complete"
          /\ lastSaved.recs[v].status = "in-progress"
          /\ state.recs[v].job_id \in JobIds
          /\ Len(state.recs[v].archives) = 2
          /\ state.recs[v].archives[1] = [id |-> "a1", description |-> "first", size |-> 10]
          /\ state.recs[v].archives[2] = [id |-> "a2", description |-> "", size |-> 20]

\* C18 as stated, where every record is initiated once (no call fails, no
\* process is killed, only the first invocation scans), so that a record has
\* reached complete exactly when its status is complete or pending_deletion:
\* in memory and in the state file, a record with archives is complete or
\* pending_deletion.
C18_ArchivesOnlyAfterComplete ==
    \A r \in AllRecords :
       r.archives # <<>> => r.status \in {"complete", "pending_deletion"}

\* Every record of d with archives has the same archives in e, if e has it.
ArchivesKept(d, e) ==
    \A v \in KeySet(d) \cap KeySet(e) :
       d.recs[v].archives # <<>> => e.recs[v].archives = d.recs[v].archives

\* C19 as stated: with no process killed, no step of any stage or invocation
\* changes the archives of a record that has some, in memory or in the
\* mapping last saved to the state file.
C19_ArchivesImmutable ==
    [][/\ ArchivesKept(state, state')
       /\ ArchivesKept(lastSaved, lastSaved')]_vars

\* C20 as stated: with no process killed, on every step and for every record
\* in memory, a job_updated once set stays set and does not decrease; a change
\* of status into in-progress, complete or error sets it to the current time;
\* and the job_updated of a complete record changes only on the Retention
\* Gate's step that selects the record.
C20_JobUpdatedNeverRegresses ==
    [][\A v \in KeySet(state) \cap KeySet(state') :
          LET old == state.recs[v]
              new == state'.recs[v]
          IN  /\ TruthyTime(old.job_updated) =>
                    /\ TruthyTime(new.job_updated)
                    /\ fromisoformat(new.job_updated) >= fromisoformat(old.job_updated)
              /\ (new.status # old.status /\ new.status \in {"in-progress", "complete", "error"})
                    => new.job_updated = isoformat(now)
              /\ (old.status = "complete" /\ new.job_updated # old.job_updated)
                    => (pc = "process" /\ IsSelected(old, current_time))]_vars

\* C21 as stated: while a store method is saving no step changes the mapping
\* in memory; whenever main runs and no save is under way the state file
\* holds the mapping in memory; and when the process is killed, the next load
\* returns exactly the mapping of the last completed save.
C21_SaveAfterEveryMutation ==
    /\ [][(saving /\ pc' # "idle") => state' = state]_vars
    /\ []((Running /\ ~saving) => load_state(file) = state)
    /\ [][(Running /\ pc' = "idle") => load_state(file') = lastSaved]_vars
====
